---- MODULE Spec2Model ----
(***************************************************************************)
(* Model of the compound-interest calculator: the projection engine        *)
(* (calculator.py), the four formatters (formatters/) and the command-line *)
(* entry point (cli.py, utils.py).                                         *)
(*                                                                         *)
(* Decimal values are exact rationals [n |-> numerator, d |-> denominator] *)
(* in lowest terms with d > 0.  The inputs drawn below are dyadic or       *)
(* finite decimals and so is every rate / compound_freq they give, so       *)
(* every Decimal operation of the engine is exact well inside the 28       *)
(* significant digits of Python's default context, and the rational is     *)
(* the value the program holds.  Amounts are in currency units (dollars).  *)
(***************************************************************************)
EXTENDS Integers, Sequences, FiniteSets, TLC

VARIABLES
    pc,                  \* position in main / calculate_compound_interest
    principal, rate, years, compound_freq, contribution, contribution_freq,
    period_rate, balance, total_contributions, cumulative_interest,
    yearly_breakdown, year, year_start_balance, year_interest,
    year_contributions, period,
    result,              \* the ProjectionResult returned by the engine
    output,              \* what the formatter's render returned
    argv,                \* the command line given to main
    args,                \* argparse namespace of main (NoArgs for a direct call)
    stdout, stderr,      \* what was printed to each stream, in order
    called,              \* calculate_compound_interest has been invoked
    status               \* exit status of main, -1 while it runs

params == <<principal, rate, years, compound_freq, contribution, contribution_freq>>
locals == <<period_rate, balance, total_contributions, cumulative_interest,
            yearly_breakdown, year, year_start_balance, year_interest,
            year_contributions, period>>
io == <<argv, args, stdout, stderr, called, status>>
vars == <<pc, params, locals, result, output, io>>

----------------------------------------------------------------------------
(* Bounds of the model *)

MaxYears == 2

----------------------------------------------------------------------------
(* decimal.Decimal with the default context: every result of +, -, * and / *)
(* is rounded half-even to 28 significant digits.  A natural number is the *)
(* sequence of its digits, least significant first, with no high zeros; a  *)
(* Decimal is [neg, mag, exp], standing for +-mag * 10^exp, mag without    *)
(* low zeros.  Every operation binds its operands as the arguments of a    *)
(* local function, so that each operand is computed once.                  *)

(* getcontext().prec of the default context *)
Prec == 28

Digs == Seq(0..9)
Decs == [neg : BOOLEAN, mag : Digs, exp : Int]

MaxOf(S) ==
    LET f[T \in SUBSET Int] == CHOOSE i \in T : \A j \in T : j <= i
    IN  f[S]
MinOf(S) ==
    LET f[T \in SUBSET Int] == CHOOSE i \in T : \A j \in T : j >= i
    IN  f[S]

(* the digits without the high zeros *)
NTrim(a) ==
    LET f[x \in Digs] ==
            IF \A i \in 1..Len(x) : x[i] = 0 THEN <<>>
            ELSE SubSeq(x, 1, MaxOf({i \in 1..Len(x) : x[i] # 0}))
    IN  f[a]

(* the number of low zeros of a number that is not zero *)
NLowZeros(a) ==
    LET f[x \in Digs] == MinOf({i \in 1..Len(x) : x[i] # 0}) - 1
    IN  f[a]

NZeros(k) == [i \in 1..k |-> 0]
NShift(a, k) ==
    LET f[x \in Digs, j \in Nat] == IF x = <<>> THEN <<>> ELSE NZeros(j) \o x
    IN  f[a, k]

NOfInt(k) ==
    LET f[j \in Nat] == IF j = 0 THEN <<>> ELSE <<j % 10>> \o f[j \div 10]
    IN  f[k]

NToInt(a) ==
    LET f[x \in Digs] == IF x = <<>> THEN 0 ELSE Head(x) + 10 * f[Tail(x)]
    IN  f[a]

(* the digit of a at position i, 0 above its length *)
NDigit(a, i) == IF i <= Len(a) THEN a[i] ELSE 0

NAdd(a, b) ==
    LET f[x \in Digs, y \in Digs] ==
            LET n == IF Len(x) > Len(y) THEN Len(x) ELSE Len(y)
                from[i \in 1..(n + 1), c \in 0..1] ==
                    IF i > n THEN (IF c = 0 THEN <<>> ELSE <<c>>)
                    ELSE <<(NDigit(x, i) + NDigit(y, i) + c) % 10>>
                         \o from[i + 1, (NDigit(x, i) + NDigit(y, i) + c) \div 10]
            IN  from[1, 0]
    IN  f[a, b]

(* a - b for a >= b *)
NSub(a, b) ==
    LET f[x \in Digs, y \in Digs] ==
            LET n == Len(x)
                from[i \in 1..(n + 1), borrow \in 0..1] ==
                    IF i > n THEN <<>>
                    ELSE IF x[i] - NDigit(y, i) - borrow < 0
                         THEN <<x[i] - NDigit(y, i) - borrow + 10>> \o from[i + 1, 1]
                         ELSE <<x[i] - NDigit(y, i) - borrow>> \o from[i + 1, 0]
            IN  NTrim(from[1, 0])
    IN  f[a, b]

(* -1, 0 or 1 as a < b, a = b or a > b, both without high zeros *)
NCmp(a, b) ==
    LET f[x \in Digs, y \in Digs] ==
            IF Len(x) < Len(y) THEN -1
            ELSE IF Len(x) > Len(y) THEN 1
            ELSE IF x = y THEN 0
            ELSE LET top == MaxOf({i \in 1..Len(x) : x[i] # y[i]})
                 IN  IF x[top] < y[top] THEN -1 ELSE 1
    IN  f[a, b]

(* a times the digit k *)
NMulDigit(a, k) ==
    LET f[x \in Digs, d \in 0..9] ==
            LET n == Len(x)
                from[i \in 1..(n + 1), c \in 0..9] ==
                    IF i > n THEN (IF c = 0 THEN <<>> ELSE <<c>>)
                    ELSE <<(x[i] * d + c) % 10>> \o from[i + 1, (x[i] * d + c) \div 10]
            IN  IF d = 0 THEN <<>> ELSE from[1, 0]
    IN  f[a, k]

(* a * b: the digits of b from the highest down, the sum carried along *)
NMul(a, b) ==
    LET f[x \in Digs, y \in Digs] ==
            LET from[j \in 0..Len(y), acc \in Digs] ==
                    IF j = 0 THEN acc
                    ELSE from[j - 1, NAdd(NMulDigit(x, y[j]), NShift(acc, 1))]
            IN  IF x = <<>> THEN <<>> ELSE NTrim(from[Len(y), <<>>])
    IN  f[a, b]

(* how many times b goes into cur, for cur < 10 * b *)
NQuot(cur, b) ==
    LET f[x \in Digs, y \in Digs] ==
            CHOOSE k \in 0..9 :
                /\ NCmp(NMulDigit(y, k), x) <= 0
                /\ k = 9 \/ NCmp(NMulDigit(y, k + 1), x) > 0
    IN  f[cur, b]

(* long division of a by b # 0, from the highest digit of a down, the     *)
(* remainder and the quotient carried from digit to digit                  *)
NDivMod(a, b) ==
    LET f[x \in Digs, y \in Digs] ==
            LET step[i \in 1..Len(x), cur \in Digs, q \in Digs, k \in 0..9] ==
                    [i |-> i - 1, rem |-> NSub(cur, NMulDigit(y, k)), q |-> <<k>> \o q]
                from[st \in [i : 0..Len(x), rem : Digs, q : Digs]] ==
                    IF st.i = 0 THEN [q |-> NTrim(st.q), r |-> st.rem]
                    ELSE from[step[st.i, NTrim(<<x[st.i]>> \o st.rem), st.q,
                                   NQuot(NTrim(<<x[st.i]>> \o st.rem), y)]]
            IN  from[[i |-> Len(x), rem |-> <<>>, q |-> <<>>]]
    IN  f[a, b]

BigZero == [neg |-> FALSE, mag |-> <<>>, exp |-> 0]

(* the Decimal of that sign, digits and exponent, low zeros moved to exp *)
Canon(neg, m, e) ==
    LET f[t \in Digs] ==
            IF t = <<>> THEN BigZero
            ELSE [neg |-> neg, mag |-> SubSeq(t, NLowZeros(t) + 1, Len(t)),
                  exp |-> e + NLowZeros(t)]
    IN  f[NTrim(m)]

(* the rounding of the context: half-even to Prec significant digits *)
Ctx(neg, m, e) ==
    LET f[t \in Digs] ==
            LET k == Len(t) - Prec
                high == SubSeq(t, k + 1, Len(t))
                below == \E i \in 1..(k - 1) : t[i] # 0
                up == t[k] > 5 \/ (t[k] = 5 /\ (below \/ high[1] % 2 = 1))
            IN  IF k <= 0 THEN Canon(neg, t, e)
                ELSE Canon(neg, IF up THEN NAdd(high, <<1>>) ELSE high, e + k)
    IN  f[NTrim(m)]

IntToBig(i) == Canon(i < 0, NOfInt(IF i < 0 THEN -i ELSE i), 0)

DNeg(a) ==
    LET f[x \in Decs] == IF x.mag = <<>> THEN x ELSE [x EXCEPT !.neg = ~x.neg]
    IN  f[a]

(* a + b exactly *)
DAddExact(a, b) ==
    LET f[x \in Decs, y \in Decs] ==
            LET e == IF x.exp < y.exp THEN x.exp ELSE y.exp
                g[mx \in Digs, my \in Digs] ==
                    IF x.neg = y.neg THEN Canon(x.neg, NAdd(mx, my), e)
                    ELSE IF NCmp(mx, my) = 0 THEN BigZero
                    ELSE IF NCmp(mx, my) > 0 THEN Canon(x.neg, NSub(mx, my), e)
                    ELSE Canon(y.neg, NSub(my, mx), e)
            IN  IF x.mag = <<>> THEN y
                ELSE IF y.mag = <<>> THEN x
                ELSE g[NShift(x.mag, x.exp - e), NShift(y.mag, y.exp - e)]
    IN  f[a, b]

DCtx(a) ==
    LET f[x \in Decs] == Ctx(x.neg, x.mag, x.exp)
    IN  f[a]

DAdd(a, b) == DCtx(DAddExact(a, b))

DMul(a, b) ==
    LET f[x \in Decs, y \in Decs] ==
            IF x.mag = <<>> \/ y.mag = <<>> THEN BigZero
            ELSE Ctx(x.neg # y.neg, NMul(x.mag, y.mag), x.exp + y.exp)
    IN  f[a, b]

(* a / b for b # 0: Prec + 2 digits of the quotient and more, and a last   *)
(* digit that says whether anything is left, then the context's rounding   *)
DDiv(a, b) ==
    LET f[x \in Decs, y \in Decs] ==
            LET want == Prec + 2 + Len(y.mag) - Len(x.mag)
                s == IF want > 0 THEN want ELSE 0
                g[qr \in [q : Digs, r : Digs]] ==
                    Ctx(x.neg # y.neg,
                        <<IF qr.r = <<>> THEN 0 ELSE 1>> \o qr.q,
                        x.exp - y.exp - s - 1)
            IN  IF x.mag = <<>> THEN BigZero
                ELSE g[NDivMod(NShift(x.mag, s), y.mag)]
    IN  f[a, b]

DLt(a, b) == DAddExact(a, DNeg(b)).neg

(* the hundredths nearest to a Decimal, a tie going up in magnitude        *)
(* (half_up) or to the even hundredth                                      *)
BigHundredths(a, half_up) ==
    LET f[v \in Decs] ==
            LET k == -2 - v.exp
                L == Len(v.mag)
                top == IF k > L THEN 0 ELSE v.mag[k]
                below == \E i \in 1..(k - 1) : i <= L /\ v.mag[i] # 0
                g[q \in Nat] ==
                    IF half_up THEN (IF top >= 5 THEN q + 1 ELSE q)
                    ELSE IF top > 5 \/ (top = 5 /\ (below \/ q % 2 = 1))
                         THEN q + 1 ELSE q
                h[m \in Nat] == IF v.neg THEN -m ELSE m
            IN  IF v.mag = <<>> THEN 0
                ELSE IF k <= 0 THEN h[NToInt(NShift(v.mag, -k))]
                ELSE h[g[NToInt(IF k >= L THEN <<>> ELSE SubSeq(v.mag, k + 1, L))]]
    IN  f[a]

(* Decimal(str) of the decimal literal that spells the rational n / d,    *)
(* which has at most Prec digits                                           *)
ToBig(a) ==
    LET f[x \in [n : Int, d : Int]] ==
            IF x.d = 1 THEN IntToBig(x.n)
            ELSE DDiv(IntToBig(x.n), IntToBig(x.d))
    IN  f[a]

----------------------------------------------------------------------------
(* Exact rational arithmetic standing for decimal.Decimal where every      *)
(* value met has at most 28 digits, so that the context rounds nothing     *)

Abs(x) == IF x < 0 THEN -x ELSE x

RECURSIVE GCD(_, _)
GCD(a, b) == IF b = 0 THEN a ELSE GCD(b, a % b)

Rat(n, d) ==
    LET s == IF d < 0 THEN -1 ELSE 1
        g == GCD(Abs(n), Abs(d))
    IN  [n |-> (s * n) \div g, d |-> (s * d) \div g]

Zero == [n |-> 0, d |-> 1]
One == [n |-> 1, d |-> 1]
FromInt(i) == [n |-> i, d |-> 1]

RAdd(a, b) ==
    LET g == GCD(a.d, b.d)
    IN  Rat(a.n * (b.d \div g) + b.n * (a.d \div g), (a.d \div g) * b.d)

RNeg(a) == [n |-> -a.n, d |-> a.d]
RSub(a, b) == RAdd(a, RNeg(b))

RMul(a, b) ==
    LET g1 == GCD(Abs(a.n), b.d)
        g2 == GCD(Abs(b.n), a.d)
    IN  IF a.n = 0 \/ b.n = 0 THEN Zero
        ELSE [n |-> (a.n \div g1) * (b.n \div g2),
              d |-> (a.d \div g2) * (b.d \div g1)]

RInv(a) == IF a.n < 0 THEN [n |-> -a.d, d |-> -a.n] ELSE [n |-> a.d, d |-> a.n]
RDiv(a, b) == RMul(a, RInv(b))

RLt(a, b) == a.n * b.d < b.n * a.d
RLe(a, b) == a.n * b.d <= b.n * a.d
RGt(a, b) == RLt(b, a)
RGe(a, b) == RLe(b, a)
RAbs(a) == [n |-> Abs(a.n), d |-> a.d]

RECURSIVE RPow(_, _)
RPow(a, k) == IF k = 0 THEN One ELSE RMul(a, RPow(a, k - 1))

(* Python's floor division and modulo on ints, for either sign of b # 0 *)
PyFloorDiv(a, b) == IF b > 0 THEN a \div b ELSE (-a) \div (-b)
PyMod(a, b) == IF b > 0 THEN a % b ELSE -((-a) % (-b))

(* value.quantize(Decimal("0.01"), rounding=ROUND_HALF_UP): the nearest    *)
(* multiple of 0.01, a tie going away from zero.  The result is the number *)
(* of hundredths.                                                          *)
HundredthsHalfUp(v) ==
    LET g == GCD(100, v.d)
        num == Abs(v.n) * (100 \div g)
        den == v.d \div g
        q == num \div den
        r == num % den
        m == IF 2 * r >= den THEN q + 1 ELSE q
    IN  IF v.n < 0 THEN -m ELSE m

round_currency(value) == Rat(HundredthsHalfUp(value), 100)

(* round(x, 2) on a float: the nearest multiple of 0.01 of the double, a   *)
(* tie (only met when the double is exact, as for the dyadic values here)  *)
(* going to the even hundredth.                                            *)
HundredthsHalfEven(v) ==
    LET g == GCD(100, v.d)
        num == Abs(v.n) * (100 \div g)
        den == v.d \div g
        q == num \div den
        r == num % den
        m == IF 2 * r > den \/ (2 * r = den /\ q % 2 = 1) THEN q + 1 ELSE q
    IN  IF v.n < 0 THEN -m ELSE m

round2(x) == Rat(HundredthsHalfEven(x), 100)

----------------------------------------------------------------------------
(* Inputs of a direct call of calculate_compound_interest, within the      *)
(* engine's contract: principal >= 0, contribution >= 0, years >= 1,       *)
(* frequencies >= 1.  The rates make rate / compound_freq a finite decimal *)
(* for every frequency: -3 gives -3, -1.5, -1 and 1.5 gives 1.5, 0.75, 0.5 *)

Principals == {Zero, Rat(1, 200), Rat(1, 20), One}
Rates == {Rat(-3, 1), Zero, Rat(3, 2)}
Freqs == {1, 2, 3}
Contributions == {Zero, Rat(1, 200), Rat(1, 10)}
ContribFreqs == {1, 2, 3, 12}

NoArgs == [principal |-> <<>>, rate |-> <<>>, time |-> 0, compound |-> <<>>,
           contribution |-> <<>>, contribution_freq |-> <<>>, output |-> "",
           no_chart |-> FALSE, no_table |-> FALSE, quiet |-> FALSE]
NoResult == [returned |-> FALSE]
NoOutput == [rendered |-> FALSE]

----------------------------------------------------------------------------
(* calculate_compound_interest, one step per loop iteration *)

(* the loop written range(1, years): the last year is never simulated *)
HasNextYearShort(y, n) == y + 1 < n

(* for year in range(1, years + 1): is there a next year after y *)
HasNextYear(y, n) == y + 1 <= n

(* for period in range(compound_freq): is there a period of index p *)
HasPeriod(p, freq) == p < freq

(* interest = balance * period_rate *)
PeriodInterest(bal, prate) == RMul(bal, prate)

(* a contribution in every compounding period, whatever the frequencies *)
PeriodsPerContributionOne(cfreq, tfreq) == 1

(* periods_per_contribution: compound_freq // contribution_freq, 1 when 0 *)
PeriodsPerContribution(cfreq, tfreq) ==
    IF PyFloorDiv(cfreq, tfreq) = 0 THEN 1 ELSE PyFloorDiv(cfreq, tfreq)

(* a contribution at the last period of the year only *)
ContributionDueYearly(contrib, p, cfreq, tfreq) ==
    /\ RGt(contrib, Zero)
    /\ p + 1 = cfreq

(* if (period + 1) % periods_per_contribution == 0, under contribution > 0 *)
ContributionDue(contrib, p, cfreq, tfreq) ==
    /\ RGt(contrib, Zero)
    /\ PyMod(p + 1, PeriodsPerContribution(cfreq, tfreq)) = 0

(* the carried balance rounded to cents at the end of every period *)
BalanceAfterPeriodRounded(bal, prate, contrib, due) ==
    LET withInterest == RAdd(bal, RMul(bal, prate))
    IN  round_currency(IF due THEN RAdd(withInterest, contrib) ELSE withInterest)

(* the contribution added before the period's interest is accrued *)
BalanceContributionFirst(bal, prate, contrib, due) ==
    LET withContribution == IF due THEN RAdd(bal, contrib) ELSE bal
    IN  RAdd(withContribution, RMul(withContribution, prate))

(* the balance at the end of a period: interest first, then the contribution *)
BalanceAfterPeriod(bal, prate, contrib, due) ==
    LET withInterest == RAdd(bal, PeriodInterest(bal, prate))
    IN  IF due THEN RAdd(withInterest, contrib) ELSE withInterest

(* ytd_growth: float(year_interest / year_start_balance) * 100, or 0.0 *)
YtdGrowth(yinterest, ystart) ==
    IF RGt(ystart, Zero)
    THEN RMul(RDiv(yinterest, ystart), FromInt(100))
    ELSE Zero

(* the snapshot holding the year's interest where the balance belongs *)
SnapshotOfInterest(y, bal, yinterest, ycontrib, ystart, cumulative) ==
    [year |-> y,
     balance |-> round_currency(yinterest),
     interest_earned |-> round_currency(yinterest),
     contributions_ytd |-> round_currency(ycontrib),
     ytd_growth_pct |-> round2(YtdGrowth(yinterest, ystart)),
     cumulative_interest |-> round_currency(cumulative)]

(* the YearlySnapshot appended at the end of a year *)
Snapshot(y, bal, yinterest, ycontrib, ystart, cumulative) ==
    [year |-> y,
     balance |-> round_currency(bal),
     interest_earned |-> round_currency(yinterest),
     contributions_ytd |-> round_currency(ycontrib),
     ytd_growth_pct |-> round2(YtdGrowth(yinterest, ystart)),
     cumulative_interest |-> round_currency(cumulative)]

(* calculate_effective_apy: (1 + r/n)^n - 1, n a positive int here *)
calculate_effective_apy(r, n) ==
    IF n >= 0
    THEN RSub(RPow(RAdd(One, RDiv(r, FromInt(n))), n), One)
    ELSE RSub(RInv(RPow(RAdd(One, RDiv(r, FromInt(n))), -n)), One)

(* calculate_doubling_time: which branch produces the value.  "inf" for    *)
(* r <= 0; otherwise the logarithmic closed form, or the Rule of 72 when   *)
(* math.log raises ValueError (1 + r/n <= 0).                              *)
calculate_doubling_time(r, n) ==
    IF RLe(r, Zero) THEN "inf"
    ELSE IF RLe(RAdd(One, RDiv(r, FromInt(n))), Zero) THEN "rule_of_72"
    ELSE "closed_form"

(* the final amount reported without the rounding to cents *)
FinalAmountUnrounded(bal) == bal

(* final_amount and total_interest of the result *)
FinalAmount(bal) == round_currency(bal)
TotalInterest(cumulative) == round_currency(cumulative)

ProjectionResult ==
    [returned |-> TRUE,
     principal |-> principal,
     final_amount |-> FinalAmount(balance),
     total_interest |-> TotalInterest(cumulative_interest),
     total_contributions |-> round_currency(total_contributions),
     effective_apy |-> calculate_effective_apy(rate, compound_freq),
     doubling_time |-> calculate_doubling_time(rate, compound_freq),
     rate |-> rate,
     years |-> years,
     compound_freq |-> compound_freq,
     contribution |-> contribution,
     contribution_freq |-> contribution_freq,
     yearly_breakdown |-> yearly_breakdown]

(* lines 97-103: period_rate = rate / compound_freq raises DivisionByZero  *)
(* (InvalidOperation for 0 / 0) when compound_freq = 0                     *)
Enter ==
    /\ pc = "call"
    /\ IF compound_freq = 0
       THEN /\ pc' = "raised"
            /\ UNCHANGED locals
       ELSE /\ period_rate' = RDiv(rate, FromInt(compound_freq))
            /\ balance' = principal
            /\ total_contributions' = Zero
            /\ cumulative_interest' = Zero
            /\ yearly_breakdown' = <<>>
            /\ year' = 0
            /\ pc' = "year_loop"
            /\ UNCHANGED <<year_start_balance, year_interest, year_contributions, period>>
    /\ UNCHANGED <<params, result, output, io>>

(* lines 106-109 *)
YearStart ==
    /\ pc = "year_loop"
    /\ HasNextYear(year, years)
    /\ year' = year + 1
    /\ year_start_balance' = balance
    /\ year_interest' = Zero
    /\ year_contributions' = Zero
    /\ period' = 0
    /\ pc' = "period_loop"
    /\ UNCHANGED <<params, period_rate, balance, total_contributions,
                   cumulative_interest, yearly_breakdown, result, output, io>>

(* lines 112-130: one compounding period.  compound_freq // contribution_freq *)
(* raises ZeroDivisionError when contribution > 0 and contribution_freq = 0   *)
Period ==
    /\ pc = "period_loop"
    /\ HasPeriod(period, compound_freq)
    /\ IF RGt(contribution, Zero) /\ contribution_freq = 0
       THEN /\ pc' = "raised"
            /\ balance' = RAdd(balance, PeriodInterest(balance, period_rate))
            /\ year_interest' = RAdd(year_interest, PeriodInterest(balance, period_rate))
            /\ UNCHANGED <<year_contributions, total_contributions, period>>
       ELSE LET due == ContributionDue(contribution, period, compound_freq, contribution_freq)
            IN  /\ balance' = BalanceAfterPeriod(balance, period_rate, contribution, due)
                /\ year_interest' = RAdd(year_interest, PeriodInterest(balance, period_rate))
                /\ year_contributions' =
                       IF due THEN RAdd(year_contributions, contribution)
                       ELSE year_contributions
                /\ total_contributions' =
                       IF due THEN RAdd(total_contributions, contribution)
                       ELSE total_contributions
                /\ period' = period + 1
                /\ pc' = "period_loop"
    /\ UNCHANGED <<params, period_rate, cumulative_interest, yearly_breakdown, year,
                   year_start_balance, result, output, io>>

(* lines 132-149: the year's periods are done *)
YearEnd ==
    /\ pc = "period_loop"
    /\ ~HasPeriod(period, compound_freq)
    /\ cumulative_interest' = RAdd(cumulative_interest, year_interest)
    /\ yearly_breakdown' =
           Append(yearly_breakdown,
                  Snapshot(year, balance, year_interest, year_contributions,
                           year_start_balance, RAdd(cumulative_interest, year_interest)))
    /\ pc' = "year_loop"
    /\ UNCHANGED <<params, period_rate, balance, total_contributions, year,
                   year_start_balance, year_interest, year_contributions, period,
                   result, output, io>>

(* lines 151-170: the summary and the return.  calculate_effective_apy     *)
(* raises ZeroDivisionError on 0.0 ** n for a negative n                   *)
Return ==
    /\ pc = "year_loop"
    /\ ~HasNextYear(year, years)
    /\ IF compound_freq < 0 /\ RAdd(One, RDiv(rate, FromInt(compound_freq))) = Zero
       THEN /\ pc' = "raised"
            /\ UNCHANGED result
       ELSE /\ result' = ProjectionResult
            /\ pc' = "returned"
    /\ UNCHANGED <<params, locals, output, io>>

----------------------------------------------------------------------------
(* Formatters.  A rendered string is modelled by its items in order; every *)
(* number an item shows is kept as the text the conversion produces:       *)
(* [neg, whole, frac], frac the digits after the decimal point (<<>> for   *)
(* an int, which is printed without a point).  The sign of a negative zero *)
(* is not kept.                                                            *)

(* the hundredths of a value with at most two decimals *)
Hundredths(v) == v.n * (100 \div v.d)

(* repr(float(x)) for a two-decimal x: the shortest digits that give the   *)
(* double back, at least one digit after the point (1.0, 0.3, 0.31)        *)
FloatRepr(v) ==
    LET h == Abs(Hundredths(v))
        f == h % 100
    IN  [neg |-> Hundredths(v) < 0,
         whole |-> h \div 100,
         frac |-> IF f = 0 THEN <<0>>
                  ELSE IF f % 10 = 0 THEN <<f \div 10>>
                  ELSE <<f \div 10, f % 10>>]

(* str(i) for an int *)
IntRepr(i) == [neg |-> i < 0, whole |-> Abs(i), frac |-> <<>>]

(* f"{x:.2f}": always two digits after the point *)
Fixed2(v) ==
    LET h == Abs(Hundredths(v))
    IN  [neg |-> Hundredths(v) < 0,
         whole |-> h \div 100,
         frac |-> <<(h % 100) \div 10, h % 10>>]

(* format_currency: f"{symbol}{float(amount):,.2f}" *)
format_currency(amount) == [symbol |-> "$", number |-> Fixed2(amount)]

RECURSIVE FracValue(_)
FracValue(digits) ==
    IF digits = <<>> THEN Zero
    ELSE RMul(Rat(1, 10), RAdd(FromInt(Head(digits)), FracValue(Tail(digits))))

(* the number a text denotes *)
NumValue(t) ==
    LET magnitude == RAdd(FromInt(t.whole), FracValue(t.frac))
    IN  IF t.neg THEN RNeg(magnitude) ELSE magnitude

RenderOptions == [show_chart : BOOLEAN, show_table : BOOLEAN, quiet : BOOLEAN]

Rendered(items) == [raised |-> "", items |-> items]
RenderRaised(exc) == [raised |-> exc, items |-> <<>>]

RECURSIVE MapSeq(_, _)
MapSeq(Op(_), seq) ==
    IF seq = <<>> THEN <<>> ELSE <<Op(Head(seq))>> \o MapSeq(Op, Tail(seq))

CsvHeader ==
    <<"year", "balance", "interest_earned", "contributions_ytd",
      "ytd_growth_pct", "cumulative_interest">>

(* the data row with two columns written in the other order *)
CsvRowSwapped(snap) ==
    [kind |-> "row",
     cells |-> <<IntRepr(snap.year),
                 FloatRepr(snap.balance),
                 FloatRepr(snap.contributions_ytd),
                 FloatRepr(snap.interest_earned),
                 FloatRepr(snap.ytd_growth_pct),
                 FloatRepr(snap.cumulative_interest)>>]

(* csv_fmt.py: one data row *)
CsvRow(snap) ==
    [kind |-> "row",
     cells |-> <<IntRepr(snap.year),
                 FloatRepr(snap.balance),
                 FloatRepr(snap.interest_earned),
                 FloatRepr(snap.contributions_ytd),
                 FloatRepr(snap.ytd_growth_pct),
                 FloatRepr(snap.cumulative_interest)>>]

(* the data rows written only when the table is asked for *)
CsvFormatterRenderTable(res, options) ==
    IF options.quiet
    THEN Rendered(<<[kind |-> "header", cells |-> <<"final_amount">>],
                    [kind |-> "final_amount", cells |-> <<FloatRepr(res.final_amount)>>]>>)
    ELSE Rendered(<<[kind |-> "header", cells |-> CsvHeader]>>
                  \o (IF options.show_table THEN MapSeq(CsvRow, res.yearly_breakdown)
                      ELSE <<>>))

(* CsvFormatter.render *)
CsvFormatterRender(res, options) ==
    IF options.quiet
    THEN Rendered(<<[kind |-> "header", cells |-> <<"final_amount">>],
                    [kind |-> "final_amount", cells |-> <<FloatRepr(res.final_amount)>>]>>)
    ELSE Rendered(<<[kind |-> "header", cells |-> CsvHeader]>>
                  \o MapSeq(CsvRow, res.yearly_breakdown))

(* json_fmt.py: one object of the yearly_breakdown array *)
JsonRow(snap) ==
    [kind |-> "row",
     object |-> [year |-> IntRepr(snap.year),
                 balance |-> FloatRepr(snap.balance),
                 interest_earned |-> FloatRepr(snap.interest_earned),
                 contributions_ytd |-> FloatRepr(snap.contributions_ytd),
                 ytd_growth_pct |-> FloatRepr(snap.ytd_growth_pct),
                 cumulative_interest |-> FloatRepr(snap.cumulative_interest)]]

(* JsonFormatter.render: the keys of summary and parameters are kept, of   *)
(* their values the three currency totals                                  *)
JsonFormatterRender(res, options) ==
    IF options.quiet
    THEN Rendered(<<[kind |-> "final_amount", cells |-> <<FloatRepr(res.final_amount)>>]>>)
    ELSE Rendered(<<[kind |-> "summary",
                     keys |-> <<"principal", "final_amount", "total_interest",
                                "total_contributions", "effective_apy",
                                "doubling_time_years">>,
                     final_amount |-> FloatRepr(res.final_amount),
                     total_interest |-> FloatRepr(res.total_interest),
                     total_contributions |-> FloatRepr(res.total_contributions)],
                    [kind |-> "parameters",
                     keys |-> <<"rate", "years", "compound_frequency", "contribution",
                                "contribution_frequency">>],
                    [kind |-> "yearly_breakdown"]>>
                  \o MapSeq(JsonRow, res.yearly_breakdown))

(* _render_table: the years shown, all of them up to 10 years, else year   *)
(* 1, every fifth year up to 50 and the last year                          *)
TableIndices(res) ==
    IF Len(res.yearly_breakdown) <= 10
    THEN 1..Len(res.yearly_breakdown)
    ELSE {1} \cup {y \in {5, 10, 15, 20, 25, 30, 35, 40, 45, 50} : y <= res.years}
             \cup {res.years}

RECURSIVE PickRows(_, _, _)
PickRows(seq, indices, i) ==
    IF i > Len(seq) THEN <<>>
    ELSE (IF i \in indices THEN <<seq[i]>> ELSE <<>>) \o PickRows(seq, indices, i + 1)

TableRows(res) == PickRows(res.yearly_breakdown, TableIndices(res), 1)

(* one line of the plain / rich table *)
TableRow(res, snap) ==
    [kind |-> "row",
     cells |-> IF RGt(res.contribution, Zero)
               THEN <<IntRepr(snap.year),
                      format_currency(snap.balance),
                      format_currency(snap.interest_earned),
                      format_currency(snap.contributions_ytd),
                      format_currency(snap.cumulative_interest)>>
               ELSE <<IntRepr(snap.year),
                      format_currency(snap.balance),
                      format_currency(snap.interest_earned),
                      Fixed2(snap.ytd_growth_pct),
                      format_currency(snap.cumulative_interest)>>]

RECURSIVE TableLines(_, _)
TableLines(res, rows) ==
    IF rows = <<>> THEN <<>>
    ELSE <<TableRow(res, Head(rows))>> \o TableLines(res, Tail(rows))

(* the body shared by PlainFormatter.render and RichFormatter.render with  *)
(* the rich library: header, metrics, the growth line under show_chart     *)
(* (which divides by float(result.principal)), the table under show_table  *)
TextRender(res, options) ==
    IF options.quiet
    THEN Rendered(<<[kind |-> "final_amount", cells |-> <<format_currency(res.final_amount)>>]>>)
    ELSE LET some == Len(res.yearly_breakdown) > 0
         IN  IF options.show_chart /\ some /\ res.principal = Zero
             THEN RenderRaised("ZeroDivisionError")
             ELSE Rendered(<<[kind |-> "title",
                              cells |-> <<format_currency(res.principal),
                                          format_currency(res.final_amount)>>],
                             [kind |-> "metrics",
                              cells |-> <<format_currency(res.total_interest)>>]>>
                           \o (IF options.show_chart /\ some
                               THEN <<[kind |-> "growth"]>> ELSE <<>>)
                           \o (IF options.show_table /\ some
                               THEN <<[kind |-> "table_header"]>>
                                    \o TableLines(res, TableRows(res))
                               ELSE <<>>))

(* the plain formatter without its quiet branch *)
PlainFormatterRenderLoud(res, options) ==
    TextRender(res, [options EXCEPT !.quiet = FALSE])

(* PlainFormatter.render *)
PlainFormatterRender(res, options) == TextRender(res, options)

(* RichFormatter.render: the plain formatter when the rich library is not  *)
(* installed                                                               *)
RichFormatterRender(rich_available, res, options) ==
    IF ~rich_available THEN PlainFormatterRender(res, options)
    ELSE TextRender(res, options)

FormatterNames == {"rich", "plain", "json", "csv"}

(* name.lower().strip() on the names drawn *)
LowerStrip(name) ==
    CASE name = "JSON" -> "json"
      [] name = " csv" -> "csv"
      [] OTHER -> name

(* get_formatter: the formatter of that name, or ValueError *)
get_formatter(name) ==
    IF LowerStrip(name) \in FormatterNames THEN LowerStrip(name) ELSE "ValueError"

(* formatter.render(result, options) of the formatter get_formatter gave *)
FormatterRender(formatter, rich_available, res, options) ==
    CASE formatter = "rich" -> RichFormatterRender(rich_available, res, options)
      [] formatter = "plain" -> PlainFormatterRender(res, options)
      [] formatter = "json" -> JsonFormatterRender(res, options)
      [] formatter = "csv" -> CsvFormatterRender(res, options)

(* The builds a formatter can run in.  Only the rich formatter depends on  *)
(* it: on whether the rich library is installed (RICH_AVAILABLE), and,     *)
(* when it is not, on whether the interpreter evaluates the annotations of *)
(* a def when it runs the def (Python up to 3.13) or defers them.          *)
RichBuilds(formatter) ==
    IF formatter = "rich"
    THEN {[rich_available |-> TRUE, deferred_annotations |-> FALSE],
          [rich_available |-> FALSE, deferred_annotations |-> TRUE],
          [rich_available |-> FALSE, deferred_annotations |-> FALSE]}
    ELSE {[rich_available |-> TRUE, deferred_annotations |-> FALSE]}

(* get_formatter's import of the formatter's module: rich_fmt.py names     *)
(* Panel and Table in the annotations of its methods (lines 76, 100, 124), *)
(* which raises NameError while the class body runs when the rich library  *)
(* is missing and annotations are evaluated                                *)
ImportRaises(formatter, build) ==
    IF formatter = "rich" /\ ~build.rich_available /\ ~build.deferred_annotations
    THEN "NameError" ELSE ""

NamesDrawn == FormatterNames \cup {"JSON", " csv", "xml"}

(* a caller of the library picks a formatter by name and renders the result *)
Render ==
    /\ pc = "returned"
    /\ args = NoArgs
    /\ \E name \in NamesDrawn, options \in RenderOptions :
         IF get_formatter(name) = "ValueError"
         THEN output' = [rendered |-> TRUE, name |-> name, formatter |-> "ValueError",
                         options |-> options, rich_available |-> TRUE,
                         text |-> RenderRaised("ValueError")]
         ELSE \E build \in RichBuilds(get_formatter(name)) :
                IF ImportRaises(get_formatter(name), build) # ""
                THEN output' = [rendered |-> TRUE, name |-> name,
                                formatter |-> ImportRaises(get_formatter(name), build),
                                options |-> options,
                                rich_available |-> build.rich_available,
                                text |-> RenderRaised(ImportRaises(get_formatter(name),
                                                                   build))]
                ELSE output' = [rendered |-> TRUE, name |-> name,
                                formatter |-> get_formatter(name),
                                options |-> options,
                                rich_available |-> build.rich_available,
                                text |-> FormatterRender(get_formatter(name),
                                                         build.rich_available,
                                                         result, options)]
    /\ pc' = "rendered"
    /\ UNCHANGED <<params, locals, result, io>>

----------------------------------------------------------------------------
(* A direct call of the engine with inputs inside its contract *)

Init ==
    /\ pc = "call"
    /\ principal \in Principals
    /\ rate \in Rates
    /\ years \in 1..MaxYears
    /\ compound_freq \in Freqs
    /\ contribution \in Contributions
    /\ contribution_freq \in ContribFreqs
    /\ period_rate = Zero
    /\ balance = Zero
    /\ total_contributions = Zero
    /\ cumulative_interest = Zero
    /\ yearly_breakdown = <<>>
    /\ year = 0
    /\ year_start_balance = Zero
    /\ year_interest = Zero
    /\ year_contributions = Zero
    /\ period = 0
    /\ result = NoResult
    /\ output = NoOutput
    /\ argv = NoArgs
    /\ args = NoArgs
    /\ stdout = <<>>
    /\ stderr = <<>>
    /\ called = TRUE
    /\ status = -1

Next == Enter \/ YearStart \/ Period \/ YearEnd \/ Return \/ Render

Spec == Init /\ [][Next]_vars

----------------------------------------------------------------------------
(* calculate_compound_interest once more, its amounts and rates held as    *)
(* Decimals and every +, * and / rounded by the context, as the code       *)
(* computes them: 0.07 / 3 and -0.05 / 3 do not end, and the balances they *)
(* produce need more than 28 digits.  The inputs are inside the contract   *)
(* (positive frequencies); the calls that raise, and effective_apy,        *)
(* doubling_time and ytd_growth_pct, which are floats, are those of the    *)
(* engine above.                                                           *)

DecimalPrincipals == {BigZero, IntToBig(1000), ToBig(Rat(2001, 2))}
DecimalRates == {ToBig(Rat(7, 100)), ToBig(Rat(-1, 20))}
DecimalFreqs == {2, 3}
DecimalContributions == {BigZero, IntToBig(100)}
DecimalContribFreqs == {1, 12}

(* _round_currency: quantize(Decimal("0.01"), ROUND_HALF_UP), the amount   *)
(* held exactly; it raises for amounts of 10^26 and more, never met here   *)
round_currency_decimal(v) == Rat(BigHundredths(v, TRUE), 100)

(* interest = balance * period_rate *)
DecimalInterest(bal, prate) == DMul(bal, prate)

(* if contribution > 0 and (period + 1) % periods_per_contribution == 0 *)
DecimalContributionDue(contrib, p, cfreq, tfreq) ==
    /\ DLt(BigZero, contrib)
    /\ PyMod(p + 1, PeriodsPerContribution(cfreq, tfreq)) = 0

(* the balance that never receives the contribution *)
DecimalBalanceWithoutContribution(bal, interest, contrib, due) ==
    DAdd(bal, interest)

(* balance += interest, then balance += contrib_this_period when due *)
DecimalBalanceAfterPeriod(bal, interest, contrib, due) ==
    IF due THEN DAdd(DAdd(bal, interest), contrib) ELSE DAdd(bal, interest)

(* the currency fields of the YearlySnapshot appended at the end of a year *)
DecimalSnapshot(y, bal, yinterest, ycontrib, cumulative) ==
    [year |-> y,
     balance |-> round_currency_decimal(bal),
     interest_earned |-> round_currency_decimal(yinterest),
     contributions_ytd |-> round_currency_decimal(ycontrib),
     cumulative_interest |-> round_currency_decimal(cumulative)]

(* the currency fields of the ProjectionResult and the inputs it repeats *)
DecimalProjectionResult ==
    [returned |-> TRUE,
     principal |-> principal,
     final_amount |-> round_currency_decimal(balance),
     total_interest |-> round_currency_decimal(cumulative_interest),
     total_contributions |-> round_currency_decimal(total_contributions),
     rate |-> rate,
     years |-> years,
     compound_freq |-> compound_freq,
     contribution |-> contribution,
     contribution_freq |-> contribution_freq,
     yearly_breakdown |-> yearly_breakdown]

InitDecimal ==
    /\ pc = "call"
    /\ principal \in DecimalPrincipals
    /\ rate \in DecimalRates
    /\ years \in 1..MaxYears
    /\ compound_freq \in DecimalFreqs
    /\ contribution \in DecimalContributions
    /\ contribution_freq \in DecimalContribFreqs
    /\ period_rate = BigZero
    /\ balance = BigZero
    /\ total_contributions = BigZero
    /\ cumulative_interest = BigZero
    /\ yearly_breakdown = <<>>
    /\ year = 0
    /\ year_start_balance = BigZero
    /\ year_interest = BigZero
    /\ year_contributions = BigZero
    /\ period = 0
    /\ result = NoResult
    /\ output = NoOutput
    /\ argv = NoArgs
    /\ args = NoArgs
    /\ stdout = <<>>
    /\ stderr = <<>>
    /\ called = TRUE
    /\ status = -1

(* lines 97-103 *)
DecimalEnter ==
    /\ pc = "call"
    /\ period_rate' = DDiv(rate, IntToBig(compound_freq))
    /\ balance' = principal
    /\ total_contributions' = BigZero
    /\ cumulative_interest' = BigZero
    /\ yearly_breakdown' = <<>>
    /\ year' = 0
    /\ pc' = "year_loop"
    /\ UNCHANGED <<year_start_balance, year_interest, year_contributions, period>>
    /\ UNCHANGED <<params, result, output, io>>

(* lines 106-109 *)
DecimalYearStart ==
    /\ pc = "year_loop"
    /\ HasNextYear(year, years)
    /\ year' = year + 1
    /\ year_start_balance' = balance
    /\ year_interest' = BigZero
    /\ year_contributions' = BigZero
    /\ period' = 0
    /\ pc' = "period_loop"
    /\ UNCHANGED <<params, period_rate, balance, total_contributions,
                   cumulative_interest, yearly_breakdown, result, output, io>>

(* lines 112-130: one compounding period *)
DecimalPeriod ==
    /\ pc = "period_loop"
    /\ HasPeriod(period, compound_freq)
    /\ LET due == DecimalContributionDue(contribution, period, compound_freq,
                                         contribution_freq)
       IN  /\ balance' = DecimalBalanceAfterPeriod(
                             balance, DecimalInterest(balance, period_rate),
                             contribution, due)
           /\ year_interest' = DAdd(year_interest,
                                    DecimalInterest(balance, period_rate))
           /\ year_contributions' =
                  IF due THEN DAdd(year_contributions, contribution)
                  ELSE year_contributions
           /\ total_contributions' =
                  IF due THEN DAdd(total_contributions, contribution)
                  ELSE total_contributions
    /\ period' = period + 1
    /\ pc' = "period_loop"
    /\ UNCHANGED <<params, period_rate, cumulative_interest, yearly_breakdown, year,
                   year_start_balance, result, output, io>>

(* lines 132-149: the year's periods are done *)
DecimalYearEnd ==
    /\ pc = "period_loop"
    /\ ~HasPeriod(period, compound_freq)
    /\ cumulative_interest' = DAdd(cumulative_interest, year_interest)
    /\ yearly_breakdown' =
           Append(yearly_breakdown,
                  DecimalSnapshot(year, balance, year_interest, year_contributions,
                                  DAdd(cumulative_interest, year_interest)))
    /\ pc' = "year_loop"
    /\ UNCHANGED <<params, period_rate, balance, total_contributions, year,
                   year_start_balance, year_interest, year_contributions, period,
                   result, output, io>>

(* lines 151-170: the summary and the return *)
DecimalReturn ==
    /\ pc = "year_loop"
    /\ ~HasNextYear(year, years)
    /\ result' = DecimalProjectionResult
    /\ pc' = "returned"
    /\ UNCHANGED <<params, locals, output, io>>

NextDecimal ==
    DecimalEnter \/ DecimalYearStart \/ DecimalPeriod \/ DecimalYearEnd \/ DecimalReturn

SpecDecimal == InitDecimal /\ [][NextDecimal]_vars

----------------------------------------------------------------------------
(* Strings of the command line are sequences of one-character strings.     *)

DigitChars == <<"0", "1", "2", "3", "4", "5", "6", "7", "8", "9">>
IsDigit(c) == \E i \in 1..10 : DigitChars[i] = c
DigitOf(c) == (CHOOSE i \in 1..10 : DigitChars[i] = c) - 1
AllDigits(str) == \A i \in 1..Len(str) : IsDigit(str[i])

RECURSIVE DigitsValue(_)
DigitsValue(str) ==
    IF str = <<>> THEN 0
    ELSE DigitsValue(SubSeq(str, 1, Len(str) - 1)) * 10 + DigitOf(str[Len(str)])

RECURSIVE PowerOfTen(_)
PowerOfTen(k) == IF k = 0 THEN 1 ELSE 10 * PowerOfTen(k - 1)

(* str.replace(c, "") for every c of a set *)
RECURSIVE Without(_, _)
Without(str, chars) ==
    IF str = <<>> THEN <<>>
    ELSE (IF Head(str) \in chars THEN <<>> ELSE <<Head(str)>>) \o Without(Tail(str), chars)

(* str.strip() *)
RECURSIVE LStrip(_)
LStrip(str) == IF str # <<>> /\ Head(str) = " " THEN LStrip(Tail(str)) ELSE str
RECURSIVE RStrip(_)
RStrip(str) ==
    IF str # <<>> /\ str[Len(str)] = " " THEN RStrip(SubSeq(str, 1, Len(str) - 1)) ELSE str
Strip(str) == LStrip(RStrip(str))

(* str.lower() on the letters drawn *)
LowerChar(c) ==
    CASE c = "A" -> "a"
      [] c = "M" -> "m"
      [] c = "Y" -> "y"
      [] OTHER -> c
RECURSIVE Lower(_)
Lower(str) == IF str = <<>> THEN <<>> ELSE <<LowerChar(Head(str))>> \o Lower(Tail(str))

Contains(str, c) == \E i \in 1..Len(str) : str[i] = c
IndexOf(str, c) == CHOOSE i \in 1..Len(str) : str[i] = c /\ \A j \in 1..(i - 1) : str[j] # c

(* Decimal(str): an optional sign, digits with at most one point and at    *)
(* least one digit, surrounding blanks ignored; anything else raises       *)
(* InvalidOperation.  (Exponents, underscores, Infinity and NaN, which     *)
(* Decimal also reads, are not among the strings drawn.)                   *)
Decimal(str) ==
    LET t == Strip(str)
        signed == t # <<>> /\ Head(t) \in {"-", "+"}
        body == IF signed THEN Tail(t) ELSE t
        dotted == Contains(body, ".")
        whole == IF dotted THEN SubSeq(body, 1, IndexOf(body, ".") - 1) ELSE body
        frac == IF dotted THEN SubSeq(body, IndexOf(body, ".") + 1, Len(body)) ELSE <<>>
        ok == /\ Len(whole) + Len(frac) >= 1
              /\ AllDigits(whole)
              /\ AllDigits(frac)
        magnitude == Rat(DigitsValue(whole) * PowerOfTen(Len(frac)) + DigitsValue(frac),
                         PowerOfTen(Len(frac)))
    IN  IF ~ok THEN [ok |-> FALSE, value |-> Zero]
        ELSE [ok |-> TRUE,
              value |-> IF signed /\ Head(t) = "-" THEN RNeg(magnitude) ELSE magnitude]

(* int(str): an optional sign and digits, surrounding blanks ignored *)
Int_(str) ==
    LET t == Strip(str)
        signed == t # <<>> /\ Head(t) \in {"-", "+"}
        body == IF signed THEN Tail(t) ELSE t
        ok == body # <<>> /\ AllDigits(body)
    IN  IF ~ok THEN [ok |-> FALSE, value |-> 0]
        ELSE [ok |-> TRUE,
              value |-> IF signed /\ Head(t) = "-" THEN -DigitsValue(body)
                        ELSE DigitsValue(body)]

(* cli.py parse_amount: "$", "," and blanks removed, then Decimal; ok is   *)
(* FALSE where it raises ValueError                                        *)
parse_amount(value) == Decimal(Without(value, {"$", ",", " "}))

(* utils.py parse_rate on a string: with a percent sign the number is      *)
(* divided by 100; a bare number is divided by 100 unless it is < 1        *)
parse_rate(value) ==
    LET v == Strip(value)
        pct == Decimal(Without(v, {"%", " "}))
        num == Decimal(v)
    IN  IF Contains(v, "%")
        THEN [ok |-> pct.ok, value |-> RMul(pct.value, Rat(1, 100))]
        ELSE [ok |-> num.ok,
              value |-> IF RLt(num.value, One) THEN num.value
                        ELSE RMul(num.value, Rat(1, 100))]

FREQUENCY_MAP ==
    {<<<<"d", "a", "i", "l", "y">>, 365>>,
     <<<<"w", "e", "e", "k", "l", "y">>, 52>>,
     <<<<"b", "i", "w", "e", "e", "k", "l", "y">>, 26>>,
     <<<<"m", "o", "n", "t", "h", "l", "y">>, 12>>,
     <<<<"q", "u", "a", "r", "t", "e", "r", "l", "y">>, 4>>,
     <<<<"s", "e", "m", "i", "a", "n", "n", "u", "a", "l", "l", "y">>, 2>>,
     <<<<"a", "n", "n", "u", "a", "l", "l", "y">>, 1>>,
     <<<<"y", "e", "a", "r", "l", "y">>, 1>>}

(* utils.py parse_frequency on a string (argparse hands main strings): a   *)
(* name of FREQUENCY_MAP, else int(value); ok is FALSE where it raises     *)
(* ValueError.  No range check is made.                                    *)
parse_frequency(value) ==
    LET v == Lower(Strip(value))
    IN  IF \E e \in FREQUENCY_MAP : e[1] = v
        THEN [ok |-> TRUE, value |-> (CHOOSE e \in FREQUENCY_MAP : e[1] = v)[2]]
        ELSE Int_(v)

----------------------------------------------------------------------------
(* main of cli.py *)

(* --output declared without choices: any string reaches get_formatter *)
OutputChoicesOpen == {"rich", "plain", "json", "csv", "xml"}

(* choices of -o/--output *)
OutputChoices == {"rich", "plain", "json", "csv"}

(* the warning written with >= *)
WarnsOnRateInclusive(r) == RGe(r, One)

(* if rate > 1: the advisory warning *)
WarnsOnRate(r) == RGt(r, One)

Warning == "Warning: Rate seems high"
ErrUsage == "usage error"
ErrPrincipalInvalid == "Error: Invalid amount (principal)"
ErrPrincipalNegative == "Error: Principal cannot be negative."
ErrRate == "Error parsing rate"
ErrCompound == "Error: Invalid frequency (compound)"
ErrContributionInvalid == "Error parsing contribution"
ErrContributionNegative == "Error: Contribution cannot be negative."
ErrContributionFreq == "Error: Invalid frequency (contribution)"
ErrTime == "Error: Time must be positive."
ErrFormatter == "Error: Unknown formatter"
Traceback == "Traceback (uncaught exception)"

(* command lines drawn *)
ArgPrincipals == {<<"a", "b", "c">>, <<"-", "5">>, <<"0">>, <<"$", "1">>}
ArgRates == {<<"x">>, <<"5", "0", "%">>, <<"1", "0", "0", "%">>, <<"1", "5", "0", "%">>}
ArgTimes == {<<"x">>} \cup {<<DigitChars[i + 1]>> : i \in 0..MaxYears}
ArgCompounds == {<<"b", "o", "g", "u", "s">>, <<"0">>, <<"-", "1">>,
                 <<"A", "n", "n", "u", "a", "l", "l", "y">>, <<"2">>}
ArgContributions == {<<"-", "1">>, <<"1", "x">>, <<"0">>, <<"0", ".", "1">>}
ArgContributionFreqs == {<<"m", "o", "n", "t", "h", "l", "y">>, <<"w", "k">>, <<"0">>}
ArgOutputs == {"rich", "json", "xml"}

Argvs ==
    [principal : ArgPrincipals, rate : ArgRates, time : ArgTimes,
     compound : ArgCompounds, contribution : ArgContributions,
     contribution_freq : ArgContributionFreqs, output : ArgOutputs,
     no_chart : BOOLEAN, no_table : BOOLEAN, quiet : BOOLEAN]

(* an error is printed to stderr and main returns (or argparse exits) *)
Fail(message, code) ==
    /\ stderr' = Append(stderr, message)
    /\ status' = code
    /\ pc' = "exit"

(* parser.parse_args(argv): argparse exits with status 2 on a --time that  *)
(* is no int or an --output outside the choices                            *)
ParseArgs ==
    /\ pc = "main"
    /\ IF ~Int_(argv.time).ok \/ argv.output \notin OutputChoices
       THEN /\ Fail(ErrUsage, 2)
            /\ UNCHANGED args
       ELSE /\ args' = [argv EXCEPT !.time = Int_(argv.time).value]
            /\ pc' = "parse_principal"
            /\ UNCHANGED <<stderr, status>>
    /\ UNCHANGED <<params, locals, result, output, argv, stdout, called>>

(* cli.py 126-133 *)
ParsePrincipal ==
    /\ pc = "parse_principal"
    /\ LET parsed == parse_amount(args.principal)
       IN  IF ~parsed.ok
           THEN Fail(ErrPrincipalInvalid, 1) /\ UNCHANGED principal
           ELSE IF RLt(parsed.value, Zero)
           THEN Fail(ErrPrincipalNegative, 1) /\ UNCHANGED principal
           ELSE /\ principal' = parsed.value
                /\ pc' = "parse_rate"
                /\ UNCHANGED <<stderr, status>>
    /\ UNCHANGED <<rate, years, compound_freq, contribution, contribution_freq,
                   locals, result, output, argv, args, stdout, called>>

(* cli.py 135-144 *)
ParseRate ==
    /\ pc = "parse_rate"
    /\ LET parsed == parse_rate(args.rate)
       IN  IF ~parsed.ok
           THEN Fail(ErrRate, 1) /\ UNCHANGED rate
           ELSE /\ rate' = parsed.value
                /\ stderr' = IF WarnsOnRate(parsed.value)
                             THEN Append(stderr, Warning) ELSE stderr
                /\ pc' = "parse_compound"
                /\ UNCHANGED status
    /\ UNCHANGED <<principal, years, compound_freq, contribution, contribution_freq,
                   locals, result, output, argv, args, stdout, called>>

(* cli.py 146-150 *)
ParseCompound ==
    /\ pc = "parse_compound"
    /\ LET parsed == parse_frequency(args.compound)
       IN  IF ~parsed.ok
           THEN Fail(ErrCompound, 1) /\ UNCHANGED compound_freq
           ELSE /\ compound_freq' = parsed.value
                /\ pc' = "parse_contribution"
                /\ UNCHANGED <<stderr, status>>
    /\ UNCHANGED <<principal, rate, years, contribution, contribution_freq,
                   locals, result, output, argv, args, stdout, called>>

(* cli.py 152-159 *)
ParseContribution ==
    /\ pc = "parse_contribution"
    /\ LET parsed == parse_amount(args.contribution)
       IN  IF ~parsed.ok
           THEN Fail(ErrContributionInvalid, 1) /\ UNCHANGED contribution
           ELSE IF RLt(parsed.value, Zero)
           THEN Fail(ErrContributionNegative, 1) /\ UNCHANGED contribution
           ELSE /\ contribution' = parsed.value
                /\ pc' = "parse_contribution_freq"
                /\ UNCHANGED <<stderr, status>>
    /\ UNCHANGED <<principal, rate, years, compound_freq, contribution_freq,
                   locals, result, output, argv, args, stdout, called>>

(* cli.py 161-165 *)
ParseContributionFreq ==
    /\ pc = "parse_contribution_freq"
    /\ LET parsed == parse_frequency(args.contribution_freq)
       IN  IF ~parsed.ok
           THEN Fail(ErrContributionFreq, 1) /\ UNCHANGED contribution_freq
           ELSE /\ contribution_freq' = parsed.value
                /\ pc' = "check_time"
                /\ UNCHANGED <<stderr, status>>
    /\ UNCHANGED <<principal, rate, years, compound_freq, contribution,
                   locals, result, output, argv, args, stdout, called>>

(* cli.py 167-169 *)
CheckTime ==
    /\ pc = "check_time"
    /\ IF args.time <= 0
       THEN Fail(ErrTime, 1)
       ELSE /\ pc' = "calculate"
            /\ UNCHANGED <<stderr, status>>
    /\ UNCHANGED <<params, locals, result, output, argv, args, stdout, called>>

(* cli.py 172-179: the call of calculate_compound_interest *)
Calculate ==
    /\ pc = "calculate"
    /\ years' = args.time
    /\ called' = TRUE
    /\ pc' = "call"
    /\ UNCHANGED <<principal, rate, compound_freq, contribution, contribution_freq,
                   locals, result, output, argv, args, stdout, stderr, status>>

(* cli.py 182-195: get_formatter, render, print *)
MainRender ==
    /\ pc = "returned"
    /\ args # NoArgs
    /\ IF get_formatter(args.output) = "ValueError"
       THEN /\ Fail(ErrFormatter, 1)
            /\ UNCHANGED <<output, stdout>>
       ELSE \E build \in RichBuilds(get_formatter(args.output)) :
              LET options == [show_chart |-> ~args.no_chart,
                              show_table |-> ~args.no_table,
                              quiet |-> args.quiet]
                  raised == ImportRaises(get_formatter(args.output), build)
                  text == IF raised # "" THEN RenderRaised(raised)
                          ELSE FormatterRender(get_formatter(args.output),
                                               build.rich_available, result, options)
              IN  /\ output' = [rendered |-> TRUE, name |-> args.output,
                                formatter |-> IF raised # "" THEN raised
                                              ELSE get_formatter(args.output),
                                options |-> options,
                                rich_available |-> build.rich_available,
                                text |-> text]
                  /\ IF text.raised # ""
                     THEN /\ pc' = "raised"
                          /\ UNCHANGED <<stdout, stderr, status>>
                     ELSE /\ stdout' = Append(stdout, text)
                          /\ status' = 0
                          /\ pc' = "exit"
                          /\ UNCHANGED stderr
    /\ UNCHANGED <<params, locals, result, argv, args, called>>

(* an exception nothing catches leaves main: a traceback and status 1 *)
Uncaught ==
    /\ pc = "raised"
    /\ args # NoArgs
    /\ Fail(Traceback, 1)
    /\ UNCHANGED <<params, locals, result, output, argv, args, stdout, called>>

InitMain ==
    /\ pc = "main"
    /\ argv \in Argvs
    /\ args = NoArgs
    /\ principal = Zero
    /\ rate = Zero
    /\ years = 0
    /\ compound_freq = 0
    /\ contribution = Zero
    /\ contribution_freq = 0
    /\ period_rate = Zero
    /\ balance = Zero
    /\ total_contributions = Zero
    /\ cumulative_interest = Zero
    /\ yearly_breakdown = <<>>
    /\ year = 0
    /\ year_start_balance = Zero
    /\ year_interest = Zero
    /\ year_contributions = Zero
    /\ period = 0
    /\ result = NoResult
    /\ output = NoOutput
    /\ stdout = <<>>
    /\ stderr = <<>>
    /\ called = FALSE
    /\ status = -1

NextMain ==
    \/ ParseArgs \/ ParsePrincipal \/ ParseRate \/ ParseCompound
    \/ ParseContribution \/ ParseContributionFreq \/ CheckTime \/ Calculate
    \/ Enter \/ YearStart \/ Period \/ YearEnd \/ Return
    \/ MainRender \/ Uncaught

SpecMain == InitMain /\ [][NextMain]_vars

----------------------------------------------------------------------------
(* Calls of the pure functions of utils.py and calculator.py, one call per *)
(* behaviour: argv is the argument, result the value returned              *)

RECURSIVE DigitString(_)
DigitString(i) ==
    IF i < 10 THEN <<DigitChars[i + 1]>>
    ELSE DigitString(i \div 10) \o <<DigitChars[(i % 10) + 1]>>

(* the characters of a number text: sign, digits, and the point with the   *)
(* digits after it when there are any                                      *)
Chars(t) ==
    (IF t.neg THEN <<"-">> ELSE <<>>)
    \o DigitString(t.whole)
    \o (IF t.frac = <<>> THEN <<>>
        ELSE <<".">> \o [i \in 1..Len(t.frac) |-> DigitChars[t.frac[i] + 1]])

(* str(value) of an int and of a float with at most two decimals *)
Str(type, number) ==
    IF type = "int" THEN Chars(IntRepr(number.n)) ELSE Chars(FloatRepr(number))

(* parse_rate with the bare value 1 taken as a fraction *)
parse_rate_inclusive(value) ==
    CASE value.type = "Decimal" ->
           [ok |-> TRUE,
            value |-> IF RLe(value.number, One) THEN value.number
                      ELSE RDiv(value.number, FromInt(100))]
      [] value.type \in {"int", "float"} ->
           LET d == Decimal(Str(value.type, value.number))
           IN  [ok |-> d.ok,
                value |-> IF RLe(value.number, One) THEN d.value
                          ELSE RDiv(d.value, FromInt(100))]
      [] value.type = "str" ->
           LET r == parse_rate(value.text)
           IN  IF r.ok /\ ~Contains(value.text, "%") /\ r.value = Rat(1, 100)
               THEN [ok |-> TRUE, value |-> RMul(r.value, FromInt(100))]
               ELSE r

(* utils.py parse_rate on a value of any accepted type: a Decimal (lines   *)
(* 28-29), an int or a float (lines 31-32, through Decimal(str(value))),   *)
(* and otherwise the string handling                                       *)
parse_rate_any(value) ==
    CASE value.type = "Decimal" ->
           [ok |-> TRUE,
            value |-> IF RLt(value.number, One) THEN value.number
                      ELSE RDiv(value.number, FromInt(100))]
      [] value.type \in {"int", "float"} ->
           LET d == Decimal(Str(value.type, value.number))
           IN  [ok |-> d.ok,
                value |-> IF RLt(value.number, One) THEN d.value
                          ELSE RDiv(d.value, FromInt(100))]
      [] value.type = "str" -> parse_rate(value.text)

(* the numbers handed to parse_rate as int, float and Decimal *)
RateNumbers ==
    {FromInt(-5), Rat(-1, 2), Zero, Rat(7, 100), Rat(99, 100), One,
     Rat(101, 100), Rat(3, 2), FromInt(7), FromInt(100)}

(* the strings handed to parse_rate, each with the number its digits spell *)
RateStrings ==
    {<<<<"7", "%">>, FromInt(7)>>,
     <<<<"7", " ", "%">>, FromInt(7)>>,
     <<<<" ", "7", "%", " ">>, FromInt(7)>>,
     <<<<"0", ".", "5", "%">>, Rat(1, 2)>>,
     <<<<"1", "5", "0", "%">>, FromInt(150)>>,
     <<<<"-", "5", "%">>, FromInt(-5)>>,
     <<<<"1", "%">>, One>>,
     <<<<"0", "%">>, Zero>>,
     <<<<"1">>, One>>,
     <<<<"1", ".", "0">>, One>>,
     <<<<"0", ".", "9", "9">>, Rat(99, 100)>>,
     <<<<"7">>, FromInt(7)>>,
     <<<<".", "0", "7">>, Rat(7, 100)>>,
     <<<<" ", "0", ".", "0", "7">>, Rat(7, 100)>>,
     <<<<"-", "5">>, FromInt(-5)>>,
     <<<<"-", "0", ".", "5">>, Rat(-1, 2)>>,
     <<<<"0">>, Zero>>,
     <<<<"1", "0", "0">>, FromInt(100)>>,
     <<<<"a", "b", "c">>, Zero>>,
     <<<<"%">>, Zero>>}

RateValues ==
    {[type |-> "str", text |-> s[1], number |-> s[2]] : s \in RateStrings}
    \cup {[type |-> "int", text |-> <<>>, number |-> x] :
              x \in {y \in RateNumbers : y.d = 1}}
    \cup {[type |-> t, text |-> <<>>, number |-> x] :
              t \in {"float", "Decimal"}, x \in RateNumbers}

ParseRateArgs == {[fn |-> "parse_rate", value |-> v] : v \in RateValues}

(* parse_rate(value): returns, or raises where ok is FALSE *)
CallParseRate ==
    /\ pc = "parse_rate"
    /\ LET r == parse_rate_any(argv.value)
       IN  /\ result' = [returned |-> r.ok, value |-> r.value]
           /\ pc' = IF r.ok THEN "parse_rate_returned" ELSE "parse_rate_raised"
    /\ UNCHANGED <<params, locals, output, argv, args, stdout, stderr, called, status>>

(* A Decimal rate handed to calculate_doubling_time, kept as Decimal keeps *)
(* it: a sign, a coefficient (one digit here) and a power of ten           *)
DoublingCoeffs == {0, 1, 3, 4, 5, 9}
DoublingExps == {-400, -324, -309, -308, -300, -20, -2, -1, 0}
DoublingRates ==
    [neg : BOOLEAN, coeff : DoublingCoeffs, exp : DoublingExps]
DoublingFreqs == {-12, -2, -1, 0, 1, 2, 12}

(* the sign of a Decimal: -1, 0 or 1 *)
DecimalSign(d) == IF d.coeff = 0 THEN 0 ELSE IF d.neg THEN -1 ELSE 1

(* float(rate) for a one-digit coefficient: 0.0 below half of the smallest *)
(* subnormal double, 2^-1075 ~ 2.47e-324; else the nearest double, which   *)
(* is kept by the digits it was read from                                  *)
Float(d) ==
    IF d.coeff = 0 \/ d.exp < -324 \/ (d.exp = -324 /\ d.coeff <= 2)
    THEN [sign |-> 0, coeff |-> 0, exp |-> 0]
    ELSE [sign |-> DecimalSign(d), coeff |-> d.coeff, exp |-> d.exp]

(* the exact value of a float of ordinary size (exponent -2..0 here) *)
RatOf(f) == Rat(f.sign * f.coeff, PowerOfTen(-f.exp))

(* 1 + r/n is exactly 1.0 in doubles when |r/n| is under 2^-54: so it is   *)
(* for the rates of 9e-20 and less drawn here, with every frequency        *)
RoundsToOne(f) == f.exp <= -20

(* round(72 / (r * 100), 1) is inf when the quotient overflows the largest *)
(* double, 1.797e308: for r under 72 / 1.797e310 ~ 4.006e-309              *)
Rule72Overflows(f) == f.exp < -309 \/ (f.exp = -309 /\ f.coeff <= 4)

(* calculate_doubling_time with a Rule of 72 that never overflows *)
DoublingTimeUnbounded(d, n) ==
    LET r == Float(d)
    IN  IF r.sign <= 0 THEN [branch |-> "inf", finite |-> FALSE]
        ELSE IF n # 0 /\ ~RoundsToOne(r)
                /\ calculate_doubling_time(RatOf(r), n) = "closed_form"
             THEN [branch |-> "closed_form", finite |-> TRUE]
             ELSE [branch |-> "rule_of_72", finite |-> TRUE]

(* calculate_doubling_time over the whole range of a Decimal rate: the     *)
(* branch that produces the value, and whether the value is finite.        *)
(* r = float(rate); r <= 0 returns inf at once.  The closed form raises    *)
(* ZeroDivisionError for n = 0 (r / n) and when 1 + r/n is 1.0 (n * log    *)
(* is 0.0), ValueError when 1 + r/n <= 0; both go to the Rule of 72.       *)
DoublingTime(d, n) ==
    LET r == Float(d)
    IN  IF r.sign <= 0 THEN [branch |-> "inf", finite |-> FALSE]
        ELSE IF n # 0 /\ ~RoundsToOne(r)
                /\ calculate_doubling_time(RatOf(r), n) = "closed_form"
             THEN [branch |-> "closed_form", finite |-> TRUE]
             ELSE [branch |-> "rule_of_72", finite |-> ~Rule72Overflows(r)]

DoublingTimeArgs ==
    {[fn |-> "calculate_doubling_time", rate |-> d, compound_freq |-> n] :
        d \in DoublingRates, n \in DoublingFreqs}

(* calculate_doubling_time(rate, compound_freq) *)
CallDoublingTime ==
    /\ pc = "calculate_doubling_time"
    /\ LET t == DoublingTime(argv.rate, argv.compound_freq)
       IN  result' = [returned |-> TRUE, branch |-> t.branch, finite |-> t.finite]
    /\ pc' = "calculate_doubling_time_returned"
    /\ UNCHANGED <<params, locals, output, argv, args, stdout, stderr, called, status>>

InitCalls ==
    /\ argv \in ParseRateArgs \cup DoublingTimeArgs
    /\ pc = argv.fn
    /\ args = NoArgs
    /\ principal = Zero
    /\ rate = Zero
    /\ years = 0
    /\ compound_freq = 0
    /\ contribution = Zero
    /\ contribution_freq = 0
    /\ period_rate = Zero
    /\ balance = Zero
    /\ total_contributions = Zero
    /\ cumulative_interest = Zero
    /\ yearly_breakdown = <<>>
    /\ year = 0
    /\ year_start_balance = Zero
    /\ year_interest = Zero
    /\ year_contributions = Zero
    /\ period = 0
    /\ result = NoResult
    /\ output = NoOutput
    /\ stdout = <<>>
    /\ stderr = <<>>
    /\ called = FALSE
    /\ status = -1

NextCalls == CallParseRate \/ CallDoublingTime

SpecCalls == InitCalls /\ [][NextCalls]_vars

----------------------------------------------------------------------------
(* Properties of the engine, checked under Spec *)

Max2(a, b) == IF a >= b THEN a ELSE b
Last(seq) == seq[Len(seq)]
Returned == pc = "returned"

(* C1: the returned yearly_breakdown has exactly `years` snapshots and     *)
(* their year fields are 1, 2, ..., years in ascending order.              *)
C1_BreakdownYears ==
    Returned =>
        /\ Len(result.yearly_breakdown) = years
        /\ \A i \in 1..Len(result.yearly_breakdown) :
               result.yearly_breakdown[i].year = i

C1_Witness ==
    /\ Returned
    /\ years >= 2
    /\ Len(result.yearly_breakdown) = years
    /\ result.yearly_breakdown[2].year = 2

(* C2: final_amount equals the balance of the last yearly snapshot and     *)
(* total_interest equals the cumulative_interest of the last snapshot.     *)
C2_SummaryMatchesLastSnapshot ==
    (Returned /\ Len(result.yearly_breakdown) >= 1) =>
        /\ result.final_amount = Last(result.yearly_breakdown).balance
        /\ result.total_interest = Last(result.yearly_breakdown).cumulative_interest

(* a return where rounding to cents changed both values *)
C2_Witness ==
    /\ Returned
    /\ Len(result.yearly_breakdown) = years
    /\ balance # result.final_amount
    /\ cumulative_interest # result.total_interest
    /\ result.final_amount = Last(result.yearly_breakdown).balance

(* P * (1 + r/n)^k, the closed form after k compounding periods *)
ClosedForm(k) ==
    RMul(principal, RPow(RAdd(One, RDiv(rate, FromInt(compound_freq))), k))

PeriodsElapsed ==
    IF pc = "period_loop" THEN (year - 1) * compound_freq + period
    ELSE year * compound_freq

C4_PeriodStep ==
    LET ppc == Max2(1, compound_freq \div contribution_freq)
        due == RGt(contribution, Zero) /\ (period + 1) % ppc = 0
        accrued == RMul(balance, period_rate)
        added == IF due THEN contribution ELSE Zero
    IN  (pc = "period_loop" /\ pc' = "period_loop") =>
            /\ period' = period + 1
            /\ year_interest' = RAdd(year_interest, accrued)
            /\ balance' = RAdd(RAdd(balance, accrued), added)
            /\ year_contributions' = RAdd(year_contributions, added)
            /\ total_contributions' = RAdd(total_contributions, added)

C4_ContributionTiming == [][C4_PeriodStep]_vars

(* the second period of a year with one contribution per two periods: the  *)
(* first period added nothing, the second added the contribution           *)
C4_Witness ==
    /\ pc = "period_loop"
    /\ compound_freq = 2
    /\ contribution_freq = 1
    /\ period = 2
    /\ RGt(contribution, Zero)
    /\ year_contributions = contribution
    /\ year_interest # Zero

ContributionFreqDivides ==
    /\ RGt(contribution, Zero)
    /\ compound_freq % contribution_freq = 0

(* C5 as stated: when contribution_freq divides compound_freq the reported *)
(* total_contributions is contribution * contribution_freq * years exactly *)
(* and every snapshot's contributions_ytd is contribution *                *)
(* contribution_freq.                                                      *)
C5_ExactContributions ==
    (Returned /\ ContributionFreqDivides) =>
        /\ result.total_contributions =
               RMul(contribution, FromInt(contribution_freq * years))
        /\ \A i \in 1..Len(result.yearly_breakdown) :
               result.yearly_breakdown[i].contributions_ytd =
                   RMul(contribution, FromInt(contribution_freq))

(* C5 amended: when contribution_freq divides compound_freq, exactly       *)
(* contribution_freq contributions are made in every year: the running     *)
(* total is contribution * contribution_freq * years exactly, and the      *)
(* reported total_contributions and contributions_ytd are these products   *)
(* rounded half-up to cents (the products themselves for a whole-cent      *)
(* contribution).                                                          *)
C5_RoundedContributions ==
    (Returned /\ ContributionFreqDivides) =>
        /\ total_contributions = RMul(contribution, FromInt(contribution_freq * years))
        /\ result.total_contributions =
               round_currency(RMul(contribution, FromInt(contribution_freq * years)))
        /\ \A i \in 1..Len(result.yearly_breakdown) :
               result.yearly_breakdown[i].contributions_ytd =
                   round_currency(RMul(contribution, FromInt(contribution_freq)))
        /\ round_currency(contribution) = contribution =>
               result.total_contributions =
                   RMul(contribution, FromInt(contribution_freq * years))

C5_Witness ==
    /\ Returned
    /\ ContributionFreqDivides
    /\ compound_freq = 2
    /\ contribution_freq = 1
    /\ years = 2
    /\ result.total_contributions = RMul(contribution, FromInt(2))

----------------------------------------------------------------------------
(* Properties of main, checked under SpecMain *)

InStderr(message) == \E i \in 1..Len(stderr) : stderr[i] = message

(* C6: main never invokes calculate_compound_interest unless principal >=  *)
(* 0, contribution >= 0, years >= 1, compound_freq >= 1 and                *)
(* contribution_freq >= 1.                                                 *)
C6_EngineContract ==
    called =>
        /\ RGe(principal, Zero)
        /\ RGe(contribution, Zero)
        /\ years >= 1
        /\ compound_freq >= 1
        /\ contribution_freq >= 1

ReportedErrors ==
    {ErrUsage, ErrPrincipalInvalid, ErrPrincipalNegative, ErrRate, ErrCompound,
     ErrContributionInvalid, ErrContributionNegative, ErrContributionFreq, ErrTime,
     ErrFormatter}

ErrorReported == \E i \in 1..Len(stderr) : stderr[i] \in ReportedErrors

(* C7: in any run of main that reports an error, the engine has not been   *)
(* called, nothing was written to standard output and the status is not 0. *)
C7_ErrorsBeforeEngine ==
    ErrorReported =>
        /\ ~called
        /\ stdout = <<>>
        /\ pc = "exit"
        /\ status \in {1, 2}

(* an unknown output format with every other argument accepted *)
C7_Witness ==
    /\ ErrorReported
    /\ argv.output = "xml"
    /\ parse_amount(argv.principal).ok
    /\ parse_frequency(argv.compound).ok
    /\ status = 2
    /\ ~called

Completed == pc = "exit" /\ status = 0 /\ Len(stdout) = 1

(* C8 as stated: the warning is emitted whenever the normalized rate is    *)
(* >= 1.0, exactly 1.0 included, and never below.                          *)
C8_WarnsFrom100 ==
    pc \notin {"main", "parse_principal", "parse_rate"} =>
        (InStderr(Warning) <=> RGe(rate, One))

(* C8 amended: the warning is emitted exactly when the normalized rate is  *)
(* > 1.0 (none at exactly 1.0); it does not end the run, which goes on to  *)
(* the remaining checks, and a warned run that finishes with status 0 has  *)
(* printed its output.                                                     *)
C8_WarnsAbove100 ==
    /\ pc \notin {"main", "parse_principal", "parse_rate"} =>
           (InStderr(Warning) <=> RGt(rate, One))
    /\ (InStderr(Warning) /\ pc = "exit") =>
           \/ Completed
           \/ stderr[Len(stderr)] # Warning
    /\ (InStderr(Warning) /\ status = 0) => Completed

(* a run inside the engine's contract that warned and printed its output *)
C8_Witness ==
    /\ InStderr(Warning)
    /\ Completed
    /\ called
    /\ RGt(rate, One)
    /\ compound_freq >= 1
    /\ contribution_freq >= 1
    /\ years >= 2

----------------------------------------------------------------------------
(* Properties of the formatters, checked under Spec *)

RowsOf(text) == SelectSeq(text.items, LAMBDA item : item.kind = "row")
QuietItem(item) ==
    \/ item.kind = "final_amount"
    \/ item.kind = "header" /\ item.cells = <<"final_amount">>

(* C9: for every formatter and every result, rendering with quiet = true   *)
(* yields only the final amount and no per-year row, whatever show_chart   *)
(* and show_table are.                                                     *)
C9_QuietOnlyFinalAmount ==
    (output.rendered /\ output.formatter \in FormatterNames /\ output.options.quiet) =>
        /\ output.text.raised = ""
        /\ RowsOf(output.text) = <<>>
        /\ \A i \in 1..Len(output.text.items) : QuietItem(output.text.items[i])
        /\ LET amounts == SelectSeq(output.text.items,
                                    LAMBDA item : item.kind = "final_amount")
           IN  /\ Len(amounts) = 1
               /\ \/ /\ output.formatter \in {"json", "csv"}
                     /\ NumValue(amounts[1].cells[1]) = result.final_amount
                  \/ /\ output.formatter \in {"plain", "rich"}
                     /\ NumValue(amounts[1].cells[1].number) = result.final_amount

(* quiet with the chart and the table asked for, on a result with rows and *)
(* a zero principal                                                        *)
C9_Witness ==
    /\ output.rendered
    /\ output.formatter = "plain"
    /\ output.options = [show_chart |-> TRUE, show_table |-> TRUE, quiet |-> TRUE]
    /\ Len(result.yearly_breakdown) = 2
    /\ principal = Zero
    /\ output.text.raised = ""

ColumnOf(header, name) == CHOOSE i \in 1..Len(header) : header[i] = name

(* C10: the JSON yearly_breakdown array and the CSV data rows of the same  *)
(* result have the same number of entries in the same year order, and      *)
(* each of the six shared fields has the same numeric value in both.       *)
C10_JsonCsvAgree ==
    (/\ output.rendered
     /\ output.formatter \in {"json", "csv"}
     /\ ~output.options.quiet) =>
        LET json == JsonFormatterRender(result, output.options)
            csv == CsvFormatterRender(result, output.options)
            header == csv.items[1].cells
            objects == RowsOf(json)
            lines == RowsOf(csv)
        IN  /\ output.text = IF output.formatter = "json" THEN json ELSE csv
            /\ Len(objects) = Len(lines)
            /\ Len(lines) = Len(result.yearly_breakdown)
            /\ \A i \in 1..Len(lines) :
                 /\ NumValue(objects[i].object.year) = FromInt(i)
                 /\ \A name \in DOMAIN objects[i].object :
                      NumValue(objects[i].object[name]) =
                          NumValue(lines[i].cells[ColumnOf(header, name)])

C10_Witness ==
    /\ output.rendered
    /\ output.formatter = "csv"
    /\ ~output.options.quiet
    /\ Len(RowsOf(output.text)) = 2
    /\ result.yearly_breakdown[2].interest_earned # Zero
    /\ result.yearly_breakdown[2].contributions_ytd # Zero
    /\ result.yearly_breakdown[2].interest_earned
           # result.yearly_breakdown[2].contributions_ytd

----------------------------------------------------------------------------
(* Properties of the pure functions, checked under SpecCalls *)

(* C12: parse_rate divides a string with a percent sign by 100 always; a   *)
(* bare number (string, int, float or Decimal) with value >= 1 is taken as *)
(* a percentage and divided by 100, and with value < 1 is returned         *)
(* unchanged, so that 1 maps to 0.01 and every negative bare value is      *)
(* returned unchanged.                                                     *)
C12_ParseRateConvention ==
    pc = "parse_rate_returned" =>
        LET v == argv.value
            x == v.number
        IN  IF v.type = "str" /\ Contains(v.text, "%")
            THEN result.value = RDiv(x, FromInt(100))
            ELSE /\ RGe(x, One) => result.value = RDiv(x, FromInt(100))
                 /\ RLt(x, One) => result.value = x
                 /\ x = One => result.value = Rat(1, 100)
                 /\ RLt(x, Zero) => result.value = x

(* the bare value 1 parsed from a string, an int, a float and a Decimal *)
C12_Witness ==
    /\ pc = "parse_rate_returned"
    /\ argv.value.number = One
    /\ ~Contains(argv.value.text, "%")
    /\ result.value = Rat(1, 100)

InfiniteByEarlyReturn == result.branch = "inf" /\ ~result.finite

(* C13 as stated: calculate_doubling_time returns positive infinity for    *)
(* every rate <= 0 and every compounding frequency, without evaluating the *)
(* closed form or the Rule of 72; for every rate > 0 it returns a finite   *)
(* value.                                                                  *)
C13_FiniteForPositiveRate ==
    pc = "calculate_doubling_time_returned" =>
        /\ DecimalSign(argv.rate) <= 0 => InfiniteByEarlyReturn
        /\ DecimalSign(argv.rate) > 0 => result.finite

(* C13, amended: positive infinity by the early return for every rate <= 0 *)
(* and every frequency; a finite value for every rate of 1e-308 and more;  *)
(* positive infinity again for a positive rate of 4e-309 and less, where   *)
(* float(rate) is 0.0 or the Rule-of-72 quotient overflows.                *)
C13_FiniteAboveFloatRange ==
    pc = "calculate_doubling_time_returned" =>
        LET d == argv.rate
        IN  /\ DecimalSign(d) <= 0 => InfiniteByEarlyReturn
            /\ (DecimalSign(d) > 0 /\ d.exp >= -308) => result.finite
            /\ (DecimalSign(d) > 0 /\ (d.exp < -309 \/ (d.exp = -309 /\ d.coeff <= 4))) =>
                   ~result.finite

(* the rate 4e-309 compounded monthly: the Rule of 72 gives 1.8e308 * 1.0002 *)
C13_Witness ==
    /\ pc = "calculate_doubling_time_returned"
    /\ argv.rate = [neg |-> FALSE, coeff |-> 4, exp |-> -309]
    /\ argv.compound_freq = 12
    /\ result.branch = "rule_of_72"
    /\ ~result.finite

----------------------------------------------------------------------------
(* Further properties of the engine, checked under Spec *)

(* contribution > 0 and contribution_freq > compound_freq, inside a year *)
MoreContributionsThanPeriods ==
    /\ pc = "period_loop"
    /\ RGt(contribution, Zero)
    /\ contribution_freq > compound_freq

NominalPerYear == RMul(contribution, FromInt(contribution_freq))

(* C14 as stated: when contribution > 0 and contribution_freq >            *)
(* compound_freq, periods_per_contribution is 1, a contribution is added   *)
(* in every compounding period, and the amount contributed per year is at  *)
(* least contribution * contribution_freq.                                 *)
C14_OverContributes ==
    MoreContributionsThanPeriods =>
        /\ PeriodsPerContribution(compound_freq, contribution_freq) = 1
        /\ year_contributions = RMul(contribution, FromInt(period))
        /\ ~HasPeriod(period, compound_freq) => RGe(year_contributions, NominalPerYear)

(* C14, amended: when contribution > 0 and contribution_freq >             *)
(* compound_freq, periods_per_contribution is 1 and a contribution is      *)
(* added in every compounding period, so that the amount contributed per   *)
(* year is contribution * compound_freq, which is less than the nominal    *)
(* contribution * contribution_freq.                                       *)
C14_UnderContributes ==
    MoreContributionsThanPeriods =>
        /\ PeriodsPerContribution(compound_freq, contribution_freq) = 1
        /\ year_contributions = RMul(contribution, FromInt(period))
        /\ ~HasPeriod(period, compound_freq) =>
               /\ year_contributions = RMul(contribution, FromInt(compound_freq))
               /\ RLt(year_contributions, NominalPerYear)

(* the end of the second year of 3 periods with 12 contributions asked for *)
C14_Witness ==
    /\ MoreContributionsThanPeriods
    /\ contribution_freq = 12
    /\ compound_freq = 3
    /\ year = 2
    /\ period = 3
    /\ year_contributions = RMul(contribution, FromInt(3))

(* C15: for every result the engine produces from valid inputs (principal  *)
(* >= 0, principal = 0 included, contribution >= 0, years >= 1,            *)
(* frequencies >= 1) and every combination of show_chart, show_table and   *)
(* quiet, each formatter's render completes and produces a string; no      *)
(* render ends in an error.                                                *)
C15_RenderCompletes ==
    (output.rendered /\ output.formatter \in FormatterNames) =>
        output.text.raised = ""

(* the year just closed: its snapshot is the last one, and the year's      *)
(* start balance and interest are still in the locals                      *)
YearClosed == pc = "year_loop" /\ year >= 1

(* C16: for every simulated year the snapshot's ytd_growth_pct equals      *)
(* year_interest / year_start_balance * 100, rounded to 2 decimals,        *)
(* whenever the balance at the start of the year is non-zero, and 0 when   *)
(* the start balance is 0; for any rate, negative rates that drive the     *)
(* balance below zero included.                                            *)
C16_YtdGrowthFormula ==
    YearClosed =>
        Last(yearly_breakdown).ytd_growth_pct =
            IF year_start_balance # Zero
            THEN round2(RMul(RDiv(year_interest, year_start_balance), FromInt(100)))
            ELSE Zero

NonNegativeInputs ==
    /\ RGe(principal, Zero)
    /\ RGe(rate, Zero)
    /\ RGe(contribution, Zero)

(* C18: when principal >= 0, rate >= 0 and contribution >= 0 the snapshot  *)
(* sequence is monotone: each year's balance is >= the previous year's     *)
(* balance (and >= the principal rounded), each year's interest_earned is  *)
(* >= 0, and cumulative_interest is non-decreasing from one snapshot to    *)
(* the next.                                                               *)
C18_MonotoneSnapshots ==
    NonNegativeInputs =>
        \A i \in 1..Len(yearly_breakdown) :
            LET snap == yearly_breakdown[i]
            IN  /\ RGe(snap.balance, round_currency(principal))
                /\ RGe(snap.interest_earned, Zero)
                /\ i > 1 =>
                      /\ RGe(snap.balance, yearly_breakdown[i - 1].balance)
                      /\ RGe(snap.cumulative_interest,
                             yearly_breakdown[i - 1].cumulative_interest)

(* two years at a positive rate with contributions: the balance and the    *)
(* cumulative interest both grow from the first snapshot to the second     *)
C18_Witness ==
    /\ Returned
    /\ RGt(rate, Zero)
    /\ RGt(principal, Zero)
    /\ RGt(contribution, Zero)
    /\ Len(yearly_breakdown) = 2
    /\ RGt(yearly_breakdown[2].balance, yearly_breakdown[1].balance)
    /\ RGt(yearly_breakdown[2].cumulative_interest,
           yearly_breakdown[1].cumulative_interest)


----------------------------------------------------------------------------
(* Properties of the engine in Decimal arithmetic, checked under           *)
(* SpecDecimal                                                             *)

(* the interest accrued so far: the year's interest joins                  *)
(* cumulative_interest when the year ends                                  *)
InterestSoFar ==
    IF pc = "period_loop" THEN DAddExact(cumulative_interest, year_interest)
    ELSE cumulative_interest

(* balance - (principal + interest so far + contributions so far), exactly *)
IdentityGap ==
    DAddExact(balance,
              DNeg(DAddExact(DAddExact(principal, InterestSoFar),
                             total_contributions)))

(* the position of the leading digit of an amount that is not zero *)
Adjusted(x) == Len(x.mag) + x.exp

(* the largest leading position among the amounts of the identity *)
LargestAdjusted ==
    MaxOf({Adjusted(x) : x \in {y \in {balance, principal, InterestSoFar,
                                       total_contributions} : y # BigZero}})

InsideLoop == pc \in {"year_loop", "period_loop", "returned"}

(* an amount with no digit below the cents *)
WholeCents(x) == x.exp >= -2

(* final_amount - (principal + total_interest + total_contributions) of    *)
(* the result, in cents                                                    *)
CentGap ==
    Hundredths(result.final_amount)
    - (BigHundredths(result.principal, TRUE) + Hundredths(result.total_interest)
       + Hundredths(result.total_contributions))

(* the snapshots' contributions_ytd summed, in cents *)
SumContributionsYtd ==
    LET sum[i \in 0..Len(yearly_breakdown)] ==
            IF i = 0 THEN 0
            ELSE sum[i - 1] + Hundredths(yearly_breakdown[i].contributions_ytd)
    IN  sum[Len(yearly_breakdown)]

ReportedTotals ==
    /\ WholeCents(principal) /\ WholeCents(contribution) => CentGap \in -1..1
    /\ SumContributionsYtd = Hundredths(result.total_contributions)

(* C17, as stated: at the end of every period the unrounded balance equals *)
(* principal + cumulative interest + total contributions exactly; for      *)
(* whole-cent principal and contribution the reported final_amount is      *)
(* within one cent of principal + total_interest + total_contributions;    *)
(* and the snapshots' contributions_ytd sum to total_contributions.        *)
C17_ExactIdentity ==
    /\ InsideLoop => IdentityGap = BigZero
    /\ pc = "returned" => ReportedTotals

(* C17, amended: the balance equals principal + cumulative interest +      *)
(* total contributions up to the rounding of the 28-digit context: the two *)
(* agree to 20 digits below the leading digit of the largest of the four   *)
(* amounts; the reported totals are within one cent as stated, and the     *)
(* contributions_ytd sum to total_contributions.                           *)
C17_IdentityUpToRounding ==
    /\ InsideLoop =>
         \/ IdentityGap = BigZero
         \/ Adjusted(IdentityGap) <= LargestAdjusted - 20
    /\ pc = "returned" => ReportedTotals

(* a returned projection of two years with contributions whose balance is  *)
(* not exactly the sum of the three amounts                                *)
C17_Witness ==
    /\ pc = "returned"
    /\ Len(yearly_breakdown) = 2
    /\ total_contributions # BigZero
    /\ IdentityGap # BigZero

====
